---- MODULE Spec2Model ----
(***************************************************************************)
(* The diff engine of SideStore's xcmapping-diff reporter                  *)
(* (SideStore/Utils/misc/xcmapping-diff-reporter/xcmapping-diff.py).       *)
(*                                                                         *)
(* An element is a record [tag, attrib, text, children]: attrib is a       *)
(* function from attribute names to values, text is a string or None,      *)
(* children is a sequence of elements.  Strings are TLA+ strings; the      *)
(* conversions of the source (strip, f-strings, str) are computed on them. *)
(* A call either returns a list of diff records or raises: a result is     *)
(* [ok |-> TRUE, diffs |-> <<...>>] or Raised.                             *)
(***************************************************************************)
EXTENDS Integers, Sequences, FiniteSets, TLC

\* root_old, root_new : the two elements handed to diff_elements (or None)
\* sib_old, sib_new   : the two sibling lists handed to a matching strategy
\* root_path          : the path of the call
\* seed               : the hash seed of the run (the iteration order of sets)
\* result             : what the call returned, or that it raised
\* pc                 : "start" before the call, the callee's name after it
\* release_md         : the content of release-notes.md (update_release_notes.py)
\* release_tag, release_section : the tag and the section of the last update
\* normalized         : the last path handed to normalize_path and what it returned
VARIABLES root_old, root_new, sib_old, sib_new, root_path, seed, result, pc,
          release_md, release_tag, release_section, normalized

vars == <<root_old, root_new, sib_old, sib_new, root_path, seed, result, pc,
          release_md, release_tag, release_section, normalized>>

(***************************************************************************)
(* Bounds of the model.                                                    *)
(***************************************************************************)
\* The longest list of siblings an input element (or sibling list) holds.
MaxKids == 2

(***************************************************************************)
(* Python values.                                                          *)
(***************************************************************************)
\* Python's None where a string may stand (elem.text, attrib.get). It lies
\* outside the alphabet the inputs are drawn from.
None == "<None>"

\* No path has been handed to normalize_path yet.
NothingNormalized == [path |-> "", display |-> ""]

\* Python's None where an element may stand (find, a missing position).
NoElem == [absent |-> TRUE]

\* The process's hash seed: the order in which a set of strings or tuples
\* is iterated differs from run to run.
Orders == {"fwd", "rev"}

RECURSIVE SetToSeq(_)
SetToSeq(S) ==
    IF S = {} THEN <<>>
    ELSE LET x == CHOOSE y \in S : TRUE
         IN  <<x>> \o SetToSeq(S \ {x})

Reverse(s) == [i \in 1..Len(s) |-> s[Len(s) + 1 - i]]

\* The sequence in which `for x in S` visits a set under hash seed o.
IterSet(S, o) == IF o = "fwd" THEN SetToSeq(S) ELSE Reverse(SetToSeq(S))

Range(s) == {s[i] : i \in 1..Len(s)}

(***************************************************************************)
(* str methods.                                                            *)
(***************************************************************************)
\* The characters str.strip() removes, as far as the inputs hold them.
Whitespace == {" ", "\n", "\t"}

RECURSIVE LStrip(_)
LStrip(s) ==
    IF Len(s) > 0 /\ SubSeq(s, 1, 1) \in Whitespace
    THEN LStrip(SubSeq(s, 2, Len(s)))
    ELSE s

RECURSIVE RStrip(_)
RStrip(s) ==
    IF Len(s) > 0 /\ SubSeq(s, Len(s), Len(s)) \in Whitespace
    THEN RStrip(SubSeq(s, 1, Len(s) - 1))
    ELSE s

\* str.strip()
Strip(s) == RStrip(LStrip(s))

\* `sub in s` on strings
Contains(s, sub) ==
    \E i \in 1..(Len(s) - Len(sub) + 1) : SubSeq(s, i, i + Len(sub) - 1) = sub

\* (elem.text or "").strip()
TextOrEmpty(elem) == IF elem.text = None THEN "" ELSE Strip(elem.text)

\* elem.get(name)
Get(elem, name) ==
    IF name \in DOMAIN elem.attrib THEN elem.attrib[name] ELSE None

\* elem.find("attribute[@name='<name>']"): the first such child, or None
Find(elem, name) ==
    LET hits == {i \in 1..Len(elem.children) :
                    /\ elem.children[i].tag = "attribute"
                    /\ Get(elem.children[i], "name") = name}
    IN  IF hits = {} THEN NoElem
        ELSE elem.children[CHOOSE i \in hits : \A j \in hits : i <= j]

(***************************************************************************)
(* Results of a call: a list of diff records, or an exception.             *)
(***************************************************************************)
Ok(d) == [ok |-> TRUE, diffs |-> d]

Raised == [ok |-> FALSE, diffs |-> <<>>]

\* diffs.extend(b) after a: the first exception ends the call.
Extend(a, b) ==
    IF ~a.ok THEN Raised
    ELSE IF ~b.ok THEN Raised
    ELSE Ok(a.diffs \o b.diffs)

RECURSIVE ExtendAll(_)
ExtendAll(rs) ==
    IF rs = <<>> THEN Ok(<<>>) ELSE Extend(Head(rs), ExtendAll(Tail(rs)))

\* `x.text.strip() if x is not None else ""`: a sub-field that is present
\* without text makes None.strip() raise AttributeError.
SubFieldText(x) ==
    IF x = NoElem THEN [ok |-> TRUE, val |-> ""]
    ELSE IF x.text = None THEN [ok |-> FALSE, val |-> ""]
    ELSE [ok |-> TRUE, val |-> Strip(x.text)]

(***************************************************************************)
(* Key resolver.                                                           *)
(***************************************************************************)
create_event_entity_mapping_key(elem) ==
    LET sourcename == SubFieldText(Find(elem, "sourcename"))
        destinationname == SubFieldText(Find(elem, "destinationname"))
        mappingtypename == SubFieldText(Find(elem, "mappingtypename"))
    IN  IF sourcename.ok /\ destinationname.ok /\ mappingtypename.ok
        THEN [ok |-> TRUE,
              key |-> <<"XDDEVENTITYMAPPING", sourcename.val,
                        destinationname.val, mappingtypename.val>>]
        ELSE [ok |-> FALSE, key |-> <<>>]

create_attribute_or_relationship_mapping_key(elem) ==
    LET name_val == SubFieldText(Find(elem, "name"))
    IN  IF name_val.ok
        THEN [ok |-> TRUE, key |-> <<Get(elem, "type"), name_val.val>>]
        ELSE [ok |-> FALSE, key |-> <<>>]

create_mapping_model_key(elem) ==
    LET path_val == SubFieldText(Find(elem, "sourcemodelpath"))
    IN  IF path_val.ok
        THEN [ok |-> TRUE, key |-> <<"XDDEVMAPPINGMODEL", path_val.val>>]
        ELSE [ok |-> FALSE, key |-> <<>>]

get_object_key(elem) ==
    LET typ == Get(elem, "type")
    IN  IF typ = "XDDEVENTITYMAPPING" THEN create_event_entity_mapping_key(elem)
        ELSE IF typ \in {"XDDEVATTRIBUTEMAPPING", "XDDEVRELATIONSHIPMAPPING"}
             THEN create_attribute_or_relationship_mapping_key(elem)
        ELSE IF typ = "XDDEVMAPPINGMODEL" THEN create_mapping_model_key(elem)
        ELSE [ok |-> TRUE, key |-> <<elem.tag>>]

\* str(key) of a one-element tuple of a string
StrTuple1(key) == "('" \o key[1] \o "',)"

format_object_key(key) ==
    IF key[1] = "XDDEVENTITYMAPPING"
    THEN "destination name: " \o key[3] \o ", mappingTypename: " \o key[4]
    ELSE IF key[1] \in {"XDDEVATTRIBUTEMAPPING", "XDDEVRELATIONSHIPMAPPING"}
         THEN "name: " \o key[2]
    ELSE IF key[1] = "XDDEVMAPPINGMODEL" THEN "sourcemodelpath: " \o key[2]
    ELSE StrTuple1(key)

format_event_entity_mapping(elem) ==
    LET dest_val == SubFieldText(Find(elem, "destinationname"))
        mappingtypename_val == SubFieldText(Find(elem, "mappingtypename"))
    IN  IF dest_val.ok /\ mappingtypename_val.ok
        THEN [ok |-> TRUE,
              val |-> "{ destination name: " \o dest_val.val
                      \o ", mappingTypename: " \o mappingtypename_val.val \o " }"]
        ELSE [ok |-> FALSE, val |-> ""]

format_element(elem) ==
    IF elem.tag = "object"
    THEN IF Get(elem, "type") = "XDDEVENTITYMAPPING"
         THEN format_event_entity_mapping(elem)
         ELSE LET key == get_object_key(elem)
              IN  IF key.ok
                  THEN [ok |-> TRUE, val |-> "[" \o format_object_key(key.key) \o "]"]
                  ELSE [ok |-> FALSE, val |-> ""]
    ELSE LET text == TextOrEmpty(elem)
         IN  [ok |-> TRUE,
              val |-> IF text # "" THEN elem.tag \o ": '" \o text \o "'" ELSE elem.tag]

\* get_element_value as the source should not be: the text of any element.
get_element_value_of_any(elem) == TextOrEmpty(elem)

get_element_value(elem) ==
    IF Len(elem.children) = 0 THEN TextOrEmpty(elem) ELSE ""

(***************************************************************************)
(* Constants of the source.                                                *)
(***************************************************************************)
IGNORED_ATTRIBUTES ==
    {"sourcemodeldata", "destinationmodeldata", "id", "idrefs", "mappingnumber"}

CATEGORY_EXTRA == "extra in new.xml"
CATEGORY_MISSING == "missing in new.xml while present in old.xml"
CATEGORY_MISMATCH == "mismatching in old.xml and new.xml"
TYPE_MISMATCH == "mismatch"
TYPE_MISSING == "missing node"
TYPE_EXTRA == "extra node"

\* A diff record is the pair (diff_type, diff_info); diff_info is a dict,
\* here a record holding exactly the keys the source sets.
append_diff(diffs, diff_type, diff_info) == Append(diffs, <<diff_type, diff_info>>)

(***************************************************************************)
(* Tree comparator: the checks on one pair of elements.                    *)
(***************************************************************************)
\* One MissingNode / ExtraNode record of check_missing_nodes: side is "old"
\* or "new", the key the formatted element is stored under.
MissingOrExtra(elem, path, diff_type, category, side) ==
    LET formatted_elem == format_element(elem)
        value == get_element_value(elem)
        base == IF side = "new"
                THEN [category |-> category, path |-> path, new |-> formatted_elem.val]
                ELSE [category |-> category, path |-> path, old |-> formatted_elem.val]
        diff_info == IF value # "" THEN base @@ [value |-> value] ELSE base
    IN  IF formatted_elem.ok
        THEN [ok |-> TRUE, diffs |-> append_diff(<<>>, diff_type, diff_info),
              both_present |-> FALSE]
        ELSE [ok |-> FALSE, diffs |-> <<>>, both_present |-> FALSE]

check_missing_nodes(old_elem, new_elem, path) ==
    IF old_elem = NoElem /\ new_elem = NoElem
    THEN [ok |-> TRUE, diffs |-> <<>>, both_present |-> FALSE]
    ELSE IF old_elem = NoElem
         THEN MissingOrExtra(new_elem, path, TYPE_EXTRA, CATEGORY_EXTRA, "new")
    ELSE IF new_elem = NoElem
         THEN MissingOrExtra(old_elem, path, TYPE_MISSING, CATEGORY_MISSING, "old")
    ELSE [ok |-> TRUE, diffs |-> <<>>, both_present |-> TRUE]

compare_tags(old_elem, new_elem, path) ==
    IF old_elem.tag # new_elem.tag
    THEN append_diff(<<>>, TYPE_MISMATCH,
                     [category |-> CATEGORY_MISMATCH, path |-> path \o " tag",
                      old |-> old_elem.tag, new |-> new_elem.tag, type |-> "tag"])
    ELSE <<>>

\* compare_text reporting the raw text of the two nodes instead of the
\* trimmed text it compared.
compare_text_raw(old_elem, new_elem, path) ==
    IF old_elem.tag = "attribute" /\ Get(old_elem, "name") = "mappingnumber"
    THEN <<>>
    ELSE IF TextOrEmpty(old_elem) # TextOrEmpty(new_elem)
         THEN append_diff(<<>>, TYPE_MISMATCH,
                          [category |-> CATEGORY_MISMATCH, path |-> path \o " text",
                           old |-> old_elem.text, new |-> new_elem.text,
                           type |-> "text"])
         ELSE <<>>

compare_text(old_elem, new_elem, path) ==
    IF old_elem.tag = "attribute" /\ Get(old_elem, "name") = "mappingnumber"
    THEN <<>>
    ELSE LET text_old == TextOrEmpty(old_elem)
             text_new == TextOrEmpty(new_elem)
         IN  IF text_old # text_new
             THEN append_diff(<<>>, TYPE_MISMATCH,
                              [category |-> CATEGORY_MISMATCH, path |-> path \o " text",
                               old |-> text_old, new |-> text_new, type |-> "text"])
             ELSE <<>>

\* The Mismatch record of compare_attributes for one attribute name.
AttributeMismatch(old_elem, new_elem, path, attr) ==
    <<TYPE_MISMATCH,
      [category |-> CATEGORY_MISMATCH,
       path |-> path \o " attribute '" \o attr \o "'",
       old |-> Get(old_elem, attr), new |-> Get(new_elem, attr),
       type |-> "attribute"]>>

\* compare_attributes without its ignore list.
compare_attributes_all(old_elem, new_elem, path, order) ==
    LET all_attrs == DOMAIN old_elem.attrib \union DOMAIN new_elem.attrib
        Differs(attr) == Get(old_elem, attr) # Get(new_elem, attr)
        attrs == SelectSeq(IterSet(all_attrs, order), Differs)
    IN  [i \in 1..Len(attrs) |-> AttributeMismatch(old_elem, new_elem, path, attrs[i])]

\* compare_attributes returning at the first attribute that differs.
compare_attributes_first_only(old_elem, new_elem, path, order) ==
    LET all_attrs == DOMAIN old_elem.attrib \union DOMAIN new_elem.attrib
        NotIgnored(x) == x \notin IGNORED_ATTRIBUTES
        Differs(attr) == Get(old_elem, attr) # Get(new_elem, attr)
        attrs == SelectSeq(SelectSeq(IterSet(all_attrs, order), NotIgnored), Differs)
    IN  IF attrs = <<>> THEN <<>>
        ELSE <<AttributeMismatch(old_elem, new_elem, path, attrs[1])>>

compare_attributes(old_elem, new_elem, path, order) ==
    LET all_attrs == DOMAIN old_elem.attrib \union DOMAIN new_elem.attrib
        NotIgnored(x) == x \notin IGNORED_ATTRIBUTES
        Differs(attr) == Get(old_elem, attr) # Get(new_elem, attr)
        attrs == SelectSeq(SelectSeq(IterSet(all_attrs, order), NotIgnored), Differs)
    IN  [i \in 1..Len(attrs) |-> AttributeMismatch(old_elem, new_elem, path, attrs[i])]

(***************************************************************************)
(* Matching strategy dispatcher.                                           *)
(***************************************************************************)
RECURSIVE diff_elements(_, _, _, _)

\* list.index(k): the zero-based position of the first occurrence of k
Index(keys, k) ==
    (CHOOSE i \in 1..Len(keys) : keys[i] = k /\ \A j \in 1..(i - 1) : keys[j] # k) - 1

\* [(child.text or "").strip() for child in children]
KeyTexts(children) == [i \in 1..Len(children) |-> TextOrEmpty(children[i])]

\* handle_plist_keys placing a rename at the index of the added value in the
\* new list.
handle_plist_keys_new_index(old_list, new_list, path, tag) ==
    LET old_keys == KeyTexts(old_list)
        new_keys == KeyTexts(new_list)
        NotInNew(k) == k \notin Range(new_keys)
        NotInOld(k) == k \notin Range(old_keys)
        missing == SelectSeq(old_keys, NotInNew)
        extra == SelectSeq(new_keys, NotInOld)
        Subpath(index) == path \o "." \o tag \o "[" \o ToString(index) \o "]"
    IN  IF Range(old_keys) = Range(new_keys) THEN <<>>
        ELSE IF Len(missing) = 1 /\ Len(extra) = 1
             THEN append_diff(<<>>, TYPE_MISMATCH,
                      [category |-> CATEGORY_MISMATCH,
                       path |-> Subpath(Index(new_keys, extra[1])) \o " text",
                       old |-> missing[1], new |-> extra[1], type |-> "text"])
        ELSE <<>>

handle_plist_keys(old_list, new_list, path, tag) ==
    LET old_keys == KeyTexts(old_list)
        new_keys == KeyTexts(new_list)
        NotInNew(k) == k \notin Range(new_keys)
        NotInOld(k) == k \notin Range(old_keys)
        missing == SelectSeq(old_keys, NotInNew)
        extra == SelectSeq(new_keys, NotInOld)
        Subpath(index) == path \o "." \o tag \o "[" \o ToString(index) \o "]"
    IN  IF Range(old_keys) = Range(new_keys) THEN <<>>
        ELSE IF Len(missing) = 1 /\ Len(extra) = 1
             THEN append_diff(<<>>, TYPE_MISMATCH,
                      [category |-> CATEGORY_MISMATCH,
                       path |-> Subpath(Index(old_keys, missing[1])) \o " text",
                       old |-> missing[1], new |-> extra[1], type |-> "text"])
        ELSE [i \in 1..Len(missing) |->
                 <<TYPE_MISSING,
                   [category |-> CATEGORY_MISSING,
                    path |-> Subpath(Index(old_keys, missing[i])) \o " text",
                    old |-> missing[i], value |-> missing[i]]>>]
             \o
             [i \in 1..Len(extra) |->
                 <<TYPE_EXTRA,
                   [category |-> CATEGORY_EXTRA,
                    path |-> Subpath(Index(new_keys, extra[i])) \o " text",
                    new |-> extra[i], value |-> extra[i]]>>]

\* [get_object_key(child) for child in children], as the dict comprehension
\* computes them; any key that raises ends the call.
ObjectKeys(children) == [i \in 1..Len(children) |-> get_object_key(children[i])]

\* {get_object_key(child): child for child in children}.get(key): a later
\* child with the same key replaces an earlier one.
DictGet(children, key) ==
    LET keys == ObjectKeys(children)
        hits == {i \in 1..Len(children) : keys[i].key = key}
    IN  IF hits = {} THEN NoElem
        ELSE children[CHOOSE i \in hits : \A j \in hits : j <= i]

\* The body of handle_object_nodes' loop for one key.
ObjectOutcome(old_list, new_list, path, order, key) ==
    LET subpath == path \o ".object[" \o format_object_key(key) \o "]"
        child_old == DictGet(old_list, key)
        child_new == DictGet(new_list, key)
    IN  IF child_old = NoElem
        THEN LET formatted == format_element(child_new)
             IN  IF formatted.ok
                 THEN Ok(append_diff(<<>>, TYPE_EXTRA,
                          [category |-> CATEGORY_EXTRA, path |-> subpath,
                           new |-> formatted.val]))
                 ELSE Raised
        ELSE IF child_new = NoElem
        THEN LET formatted == format_element(child_old)
             IN  IF formatted.ok
                 THEN Ok(append_diff(<<>>, TYPE_MISSING,
                          [category |-> CATEGORY_MISSING, path |-> subpath,
                           old |-> formatted.val]))
                 ELSE Raised
        ELSE diff_elements(child_old, child_new, subpath, order)

handle_object_nodes(old_list, new_list, path, order) ==
    LET keys_old == ObjectKeys(old_list)
        keys_new == ObjectKeys(new_list)
        all_keys == {keys_old[i].key : i \in 1..Len(old_list)}
                        \union {keys_new[i].key : i \in 1..Len(new_list)}
        visit == IterSet(all_keys, order)
    IN  IF \/ \E i \in 1..Len(old_list) : ~keys_old[i].ok
           \/ \E i \in 1..Len(new_list) : ~keys_new[i].ok
        THEN Raised
        ELSE ExtendAll([i \in 1..Len(visit) |->
                           ObjectOutcome(old_list, new_list, path, order, visit[i])])

Max(a, b) == IF a >= b THEN a ELSE b

\* handle_default_children as the source should not be: the index is written
\* into the path of a single position too.
handle_default_children_indexed(old_list, new_list, path, tag, order) ==
    LET max_len == Max(Len(old_list), Len(new_list))
        At(list, i) == IF i < Len(list) THEN list[i + 1] ELSE NoElem
    IN  ExtendAll([k \in 1..max_len |->
            diff_elements(At(old_list, k - 1), At(new_list, k - 1),
                          path \o "." \o tag \o "[" \o ToString(k - 1) \o "]", order)])

handle_default_children(old_list, new_list, path, tag, order) ==
    LET max_len == Max(Len(old_list), Len(new_list))
        Subpath(i) == IF max_len = 1 THEN path \o "." \o tag
                      ELSE path \o "." \o tag \o "[" \o ToString(i) \o "]"
        child_old(i) == IF i < Len(old_list) THEN old_list[i + 1] ELSE NoElem
        child_new(i) == IF i < Len(new_list) THEN new_list[i + 1] ELSE NoElem
    IN  ExtendAll([n \in 1..max_len |->
                      diff_elements(child_old(n - 1), child_new(n - 1),
                                    Subpath(n - 1), order)])

IgnoredNames == {"sourcemodeldata", "destinationmodeldata", "mappingnumber"}

\* filter_children as the source should not be: every child is kept.
filter_children_keeps_all(children) == children

filter_children(children) ==
    LET Kept(child) ==
            ~(child.tag = "attribute" /\ Get(child, "name") \in IgnoredNames)
    IN  SelectSeq(children, Kept)

\* group_by_tag(elements).keys()
GroupTags(elements) == {elements[i].tag : i \in 1..Len(elements)}

\* group_by_tag(elements).get(tag, [])
group_by_tag(elements, tag) ==
    LET HasTag(element) == element.tag = tag
    IN  SelectSeq(elements, HasTag)

diff_children(old_children, new_children, path, order) ==
    LET old_kept == filter_children(old_children)
        new_kept == filter_children(new_children)
        tags == IterSet(GroupTags(old_kept) \union GroupTags(new_kept), order)
        Group(tag) ==
            LET old_list == group_by_tag(old_kept, tag)
                new_list == group_by_tag(new_kept, tag)
            IN  IF tag = "key" /\ Contains(path, ".plist.dict")
                THEN Ok(handle_plist_keys(old_list, new_list, path, tag))
                ELSE IF tag = "object"
                     THEN handle_object_nodes(old_list, new_list, path, order)
                ELSE handle_default_children(old_list, new_list, path, tag, order)
    IN  ExtendAll([i \in 1..Len(tags) |-> Group(tags[i])])

(***************************************************************************)
(* Tree comparator.                                                        *)
(***************************************************************************)
\* diff_elements without the return after a tag mismatch.
diff_elements_no_return(old_elem, new_elem, path, order) ==
    LET missing_diffs == check_missing_nodes(old_elem, new_elem, path)
    IN  IF ~missing_diffs.ok THEN Raised
        ELSE IF ~missing_diffs.both_present THEN Ok(missing_diffs.diffs)
        ELSE Extend(Ok(compare_tags(old_elem, new_elem, path)
                       \o compare_text(old_elem, new_elem, path)
                       \o compare_attributes(old_elem, new_elem, path, order)),
                    diff_children(old_elem.children, new_elem.children, path, order))

diff_elements(old_elem, new_elem, path, order) ==
    LET missing_diffs == check_missing_nodes(old_elem, new_elem, path)
        tag_diffs == compare_tags(old_elem, new_elem, path)
    IN  IF ~missing_diffs.ok THEN Raised
        ELSE IF ~missing_diffs.both_present THEN Ok(missing_diffs.diffs)
        ELSE IF tag_diffs # <<>> THEN Ok(tag_diffs)
        ELSE Extend(Ok(compare_text(old_elem, new_elem, path)
                       \o compare_attributes(old_elem, new_elem, path, order)),
                    diff_children(old_elem.children, new_elem.children, path, order))

(***************************************************************************)
(* Inputs: the elements and sibling lists the calls are made on.           *)
(***************************************************************************)
Elem(tag, attrib, text, children) ==
    [tag |-> tag, attrib |-> attrib, text |-> text, children |-> children]

NoAttrib == <<>>

\* <attribute name="...">text</attribute>
Attr(name, text) == Elem("attribute", "name" :> name, text, <<>>)

\* The sequences over S of length at most n.
RECURSIVE SeqsUpTo(_, _)
SeqsUpTo(S, n) ==
    IF n = 0 THEN {<<>>}
    ELSE LET shorter == SeqsUpTo(S, n - 1)
         IN  shorter \union {Append(s, x) : s \in shorter, x \in S}

\* An entity mapping with all three identity sub-fields.
EntityGood ==
    Elem("object", ("type" :> "XDDEVENTITYMAPPING") @@ ("id" :> "z1"), None,
         <<Attr("sourcename", "S"), Attr("destinationname", " D"),
           Attr("mappingtypename", "U")>>)

\* The same entity mapping renumbered: another id, a mappingnumber child.
EntityRenumbered ==
    Elem("object", ("type" :> "XDDEVENTITYMAPPING") @@ ("id" :> "z2"), None,
         <<Attr("mappingnumber", "2"), Attr("sourcename", "S"),
           Attr("destinationname", "D"), Attr("mappingtypename", "U")>>)

\* An entity mapping whose sourcename sub-field is present without text:
\* <attribute name="sourcename"/>.
EntityNoText ==
    Elem("object", "type" :> "XDDEVENTITYMAPPING", None,
         <<Attr("sourcename", None), Attr("destinationname", "D")>>)

ModelX ==
    Elem("object", "type" :> "XDDEVMAPPINGMODEL", None,
         <<Attr("sourcemodelpath", "X")>>)

ObjectPool == {EntityGood, EntityRenumbered, EntityNoText, ModelX}

Key(text) == Elem("key", NoAttrib, text, <<>>)

LeafPool ==
    {Key("K"), Key("M"),
     Elem("a", "id" :> "1", "x", <<>>), Elem("a", "id" :> "2", "x", <<>>)}

\* Elements without children.
Leaves ==
    {Elem("a", attrib, text, <<>>) :
        attrib \in {NoAttrib, "id" :> "1", "id" :> "2", "k" :> "v",
                    ("k" :> "v") @@ ("id" :> "1"), ("k" :> "w") @@ ("j" :> "u")},
        text \in {None, "x", " x"}}
    \union {Elem("b", NoAttrib, "x", <<>>), Elem("b", "k" :> "v", None, <<>>)}
    \union {Attr(name, text) : name \in {"mappingnumber", "name"}, text \in {"1", "2"}}

\* Elements with 'object' children, and elements with 'key' and other children.
ObjectParents ==
    {Elem("r", NoAttrib, None, kids) : kids \in SeqsUpTo(ObjectPool, MaxKids)}

LeafParents ==
    {Elem("r", NoAttrib, None, kids) : kids \in SeqsUpTo(LeafPool, MaxKids)}

\* Elements with both text and a child, the text blank or not.
TextParents ==
    {Elem("r", NoAttrib, text, <<Elem("a", NoAttrib, "x", <<>>)>>) :
        text \in {" ", " t", "t ", "u"}}

Trees == Leaves \union ObjectParents \union LeafParents \union TextParents

\* The leaves that are also compared with elements that have children.
LoneLeaves ==
    {Elem("a", NoAttrib, None, <<>>), Elem("a", "k" :> "v", " x", <<>>),
     Elem("b", "k" :> "v", None, <<>>), Attr("name", "1")}

\* The pairs of roots handed to diff_elements: two versions of a document,
\* or one of them absent, or a document and an unrelated small element.
RootPairs ==
    ((Leaves \union {NoElem}) \X (Leaves \union {NoElem}))
    \union (ObjectParents \X ObjectParents)
    \union (LeafParents \X LeafParents)
    \union (TextParents \X TextParents)
    \union ((LoneLeaves \union {NoElem}) \X Trees)
    \union (Trees \X (LoneLeaves \union {NoElem}))

RootPaths == {"r", "r.plist.dict"}

HasKey(elem) ==
    elem # NoElem /\ \E i \in 1..Len(elem.children) : elem.children[i].tag = "key"

\* The diff engine never touches the release notes.
NoReleaseNotes == release_md = "" /\ release_tag = "" /\ release_section = ""

(***************************************************************************)
(* The comparison of two documents: main() calls diff_elements on the two  *)
(* roots.                                                                  *)
(***************************************************************************)
Init ==
    /\ \E pair \in RootPairs : root_old = pair[1] /\ root_new = pair[2]
    /\ root_path \in IF HasKey(root_old) \/ HasKey(root_new) THEN RootPaths ELSE {"r"}
    /\ seed \in Orders
    /\ sib_old = <<>>
    /\ sib_new = <<>>
    /\ result = Ok(<<>>)
    /\ pc = "start"
    /\ normalized = NothingNormalized
    /\ NoReleaseNotes

DiffElements ==
    /\ pc = "start"
    /\ result' = diff_elements(root_old, root_new, root_path, seed)
    /\ pc' = "diff_elements"
    /\ UNCHANGED <<root_old, root_new, sib_old, sib_new, root_path, seed>>
    /\ UNCHANGED <<release_md, release_tag, release_section, normalized>>

Next == DiffElements

Spec == Init /\ [][Next]_vars

(***************************************************************************)
(* The key-based strategy on its own: handle_object_nodes on two lists of  *)
(* 'object' siblings.                                                      *)
(***************************************************************************)
Entity(sourcename, destinationname, mappingtypename) ==
    Elem("object", "type" :> "XDDEVENTITYMAPPING", None,
         <<Attr("sourcename", sourcename), Attr("destinationname", destinationname),
           Attr("mappingtypename", mappingtypename)>>)

Model(sourcemodelpath) ==
    Elem("object", "type" :> "XDDEVMAPPINGMODEL", None,
         <<Attr("sourcemodelpath", sourcemodelpath)>>)

\* An object of no recognized type: its key is (tag,).
Plain(text) == Elem("object", NoAttrib, text, <<>>)

SiblingObjects ==
    {Entity("S", "D", "U"), Entity("T", "D", "U"), EntityNoText,
     Model("X"), Model("Y"), Plain("1"), Plain("2")}

InitObjects ==
    /\ sib_old \in SeqsUpTo(SiblingObjects, MaxKids)
    /\ sib_new \in SeqsUpTo(SiblingObjects, MaxKids)
    /\ root_old = NoElem
    /\ root_new = NoElem
    /\ root_path = "r"
    /\ seed \in Orders
    /\ result = Ok(<<>>)
    /\ pc = "start"
    /\ normalized = NothingNormalized
    /\ NoReleaseNotes

HandleObjectNodes ==
    /\ pc = "start"
    /\ result' = handle_object_nodes(sib_old, sib_new, root_path, seed)
    /\ pc' = "handle_object_nodes"
    /\ UNCHANGED <<root_old, root_new, sib_old, sib_new, root_path, seed>>
    /\ UNCHANGED <<release_md, release_tag, release_section, normalized>>

NextObjects == HandleObjectNodes

SpecObjects == InitObjects /\ [][NextObjects]_vars

(***************************************************************************)
(* The set-of-strings strategy on its own: handle_plist_keys on two lists  *)
(* of 'key' siblings inside a plist dict.                                  *)
(***************************************************************************)
SiblingKeys == {Key(None), Key("K"), Key("M"), Key(" M "), Key("N")}

InitKeys ==
    /\ sib_old \in SeqsUpTo(SiblingKeys, MaxKids)
    /\ sib_new \in SeqsUpTo(SiblingKeys, MaxKids)
    /\ root_old = NoElem
    /\ root_new = NoElem
    /\ root_path = "r.plist.dict"
    /\ seed \in Orders
    /\ result = Ok(<<>>)
    /\ pc = "start"
    /\ normalized = NothingNormalized
    /\ NoReleaseNotes

HandlePlistKeys ==
    /\ pc = "start"
    /\ result' = Ok(handle_plist_keys(sib_old, sib_new, root_path, "key"))
    /\ pc' = "handle_plist_keys"
    /\ UNCHANGED <<root_old, root_new, sib_old, sib_new, root_path, seed>>
    /\ UNCHANGED <<release_md, release_tag, release_section, normalized>>

NextKeys == HandlePlistKeys

SpecKeys == InitKeys /\ [][NextKeys]_vars

(***************************************************************************)
(* Vocabulary of the properties.                                           *)
(***************************************************************************)
Compared == pc = "diff_elements"

BothPresent == root_old # NoElem /\ root_new # NoElem

\* What a call produced up to the order of its records: whether it returned,
\* and the set of records it returned.
Outcome(r) == [ok |-> r.ok, records |-> Range(r.diffs)]

\* A record's old / new value is present: the key is set, and not to None.
Present(info, side) == side \in DOMAIN info /\ info[side] # None

Mismatches(r) == {d \in Range(r.diffs) : d[1] = TYPE_MISMATCH}

\* The element without its ignored attributes, at every depth.
RECURSIVE Scrub(_)
Scrub(elem) ==
    IF elem = NoElem THEN NoElem
    ELSE [elem EXCEPT
            !.attrib = [a \in DOMAIN elem.attrib \ IGNORED_ATTRIBUTES |-> elem.attrib[a]],
            !.children = [i \in 1..Len(elem.children) |-> Scrub(elem.children[i])]]

(***************************************************************************)
(* C1. Idempotence: comparing a tree with itself returns an empty list of  *)
(* diff records.                                                           *)
(***************************************************************************)
Idempotence ==
    (Compared /\ BothPresent /\ root_old = root_new) => result = Ok(<<>>)

(***************************************************************************)
(* C2. Symmetry: diff(A, B) and diff(B, A) carry the same set of paths;    *)
(* a Mismatch of one is a Mismatch of the other at the same path with old  *)
(* and new swapped; a MissingNode of one is an ExtraNode of the other at   *)
(* the same path, and an ExtraNode a MissingNode.                          *)
(***************************************************************************)
Paths(r) == {d[2].path : d \in Range(r.diffs)}

MirroredIn(d, r) ==
    \E e \in Range(r.diffs) :
        /\ e[2].path = d[2].path
        /\ \/ /\ d[1] = TYPE_MISMATCH
              /\ e[1] = TYPE_MISMATCH
              /\ e[2].old = d[2].new
              /\ e[2].new = d[2].old
           \/ d[1] = TYPE_MISSING /\ e[1] = TYPE_EXTRA
           \/ d[1] = TYPE_EXTRA /\ e[1] = TYPE_MISSING

Symmetry ==
    Compared =>
        LET back == diff_elements(root_new, root_old, root_path, seed)
        IN  /\ back.ok = result.ok
            /\ Paths(back) = Paths(result)
            /\ \A d \in Range(result.diffs) : MirroredIn(d, back)
            /\ \A d \in Range(back.diffs) : MirroredIn(d, result)

(***************************************************************************)
(* C4. Ignored-attribute invariance: two trees that differ only in the     *)
(* value or presence of ignored attributes, at any depth, give no Mismatch *)
(* record; and changing ignored attributes on either side never changes    *)
(* the set of records produced: every comparison produces the records that *)
(* the comparison of the two trees without their ignored attributes does.  *)
(***************************************************************************)
IgnoredAttributeInvariance ==
    Compared =>
        /\ (BothPresent /\ Scrub(root_old) = Scrub(root_new)) => Mismatches(result) = {}
        /\ Outcome(diff_elements(Scrub(root_old), Scrub(root_new), root_path, seed))
              = Outcome(result)

\* Two trees with children that differ in an ignored attribute of the root's
\* children and in nothing else have been compared.
IgnoredAttributeChanged ==
    /\ Compared
    /\ BothPresent
    /\ root_old # root_new
    /\ Scrub(root_old) = Scrub(root_new)
    /\ root_old.children # <<>>
    /\ result = Ok(<<>>)

(***************************************************************************)
(* C6. Tag-mismatch short-circuit: two present nodes with different tags   *)
(* give exactly one record, a Mismatch of subtype tag with the two tag     *)
(* names, whatever text, attributes and children they have.                *)
(***************************************************************************)
TagMismatchShortCircuit ==
    (Compared /\ BothPresent /\ root_old.tag # root_new.tag) =>
        result = Ok(<< <<TYPE_MISMATCH,
                         [category |-> CATEGORY_MISMATCH, path |-> root_path \o " tag",
                          old |-> root_old.tag, new |-> root_new.tag,
                          type |-> "tag"]>> >>)

\* Two nodes with different tags have been compared whose texts and compared
\* attributes differ as well, one of them with children.
TagMismatchWithContent ==
    /\ Compared
    /\ BothPresent
    /\ root_old.tag # root_new.tag
    /\ root_old.children # <<>>
    /\ TextOrEmpty(root_old) # TextOrEmpty(root_new)
    /\ "k" \in DOMAIN root_new.attrib

(***************************************************************************)
(* C8. The core never raises: diff_elements returns a list of records for  *)
(* every pair of nodes, absent ones included, also when an identity        *)
(* sub-field of an object is absent or carries no text.                    *)
(***************************************************************************)
NeverRaises == Compared => result.ok

(***************************************************************************)
(* C9. Determinism: the set of records diff_elements returns is the same   *)
(* under every iteration order of the tag groups, the object keys and the  *)
(* attribute names; only the order of the list varies.                     *)
(***************************************************************************)
Determinism ==
    Compared =>
        \A o \in Orders :
            Outcome(diff_elements(root_old, root_new, root_path, o)) = Outcome(result)

\* A comparison of an element with children whose list of records comes in
\* another order under another hash seed.
OrderVaries ==
    /\ Compared
    /\ BothPresent
    /\ root_old.children # <<>>
    /\ \E o \in Orders :
          diff_elements(root_old, root_new, root_path, o).diffs # result.diffs

(***************************************************************************)
(* C10 as claimed. Every record has at least one of old / new present;     *)
(* every Mismatch has both present; a MissingNode carries an old value, an *)
(* ExtraNode a new value.                                                  *)
(***************************************************************************)
RecordsWellFormed ==
    \A d \in Range(result.diffs) :
        /\ Present(d[2], "old") \/ Present(d[2], "new")
        /\ d[1] = TYPE_MISMATCH => Present(d[2], "old") /\ Present(d[2], "new")
        /\ d[1] = TYPE_MISSING => Present(d[2], "old")
        /\ d[1] = TYPE_EXTRA => Present(d[2], "new")

(***************************************************************************)
(* C10 amended. Every record has at least one of old / new present; every  *)
(* Mismatch of subtype tag or text has both present; a Mismatch of subtype *)
(* attribute has both keys set, one of them to None when the attribute is  *)
(* absent on that side; a MissingNode carries an old value, an ExtraNode a *)
(* new value.                                                              *)
(***************************************************************************)
RecordsWellFormedButAttributes ==
    \A d \in Range(result.diffs) :
        /\ Present(d[2], "old") \/ Present(d[2], "new")
        /\ (d[1] = TYPE_MISMATCH /\ d[2].type \in {"tag", "text"}) =>
              Present(d[2], "old") /\ Present(d[2], "new")
        /\ (d[1] = TYPE_MISMATCH /\ d[2].type = "attribute") =>
              {"old", "new"} \subseteq DOMAIN d[2]
        /\ d[1] = TYPE_MISSING => Present(d[2], "old")
        /\ d[1] = TYPE_EXTRA => Present(d[2], "new")

\* A comparison has reported a text Mismatch together with the Mismatch of an
\* attribute that only one side has.
OneSidedAttributeReported ==
    /\ Compared
    /\ \E d \in Mismatches(result) : d[2].type = "text"
    /\ \E d \in Mismatches(result) :
          d[2].type = "attribute" /\ ~(Present(d[2], "old") /\ Present(d[2], "new"))

(***************************************************************************)
(* Vocabulary of the properties of the key-based strategy.                 *)
(***************************************************************************)
ObjectsCompared == pc = "handle_object_nodes"

\* The lists with the elements of s in any order.
Shuffles(s) ==
    {[i \in 1..Len(s) |-> s[f[i]]] : f \in Permutations(1..Len(s))}

\* The derived keys of a sibling list.
KeysOf(children) == {get_object_key(children[i]).key : i \in 1..Len(children)}

ObjectSegment(key) == root_path \o ".object[" \o format_object_key(key) \o "]"

\* How many records of the list are of the given type at the given path.
Count(diffs, diff_type, at) ==
    Cardinality({i \in 1..Len(diffs) : diffs[i][1] = diff_type /\ diffs[i][2].path = at})

(***************************************************************************)
(* C3. Order invariance of the key-based strategy: permuting the old       *)
(* and / or the new list of 'object' siblings leaves the set of diff       *)
(* records of handle_object_nodes unchanged, and a list compared with a    *)
(* shuffled copy of itself gives no diff record.                           *)
(***************************************************************************)
OrderInvariance ==
    ObjectsCompared =>
        /\ \A olds \in Shuffles(sib_old), news \in Shuffles(sib_new) :
              Outcome(handle_object_nodes(olds, news, root_path, seed)) = Outcome(result)
        /\ sib_new \in Shuffles(sib_old) => Range(result.diffs) = {}

(***************************************************************************)
(* C7. Key-based pairing: every derived key of the union gives one         *)
(* outcome: one ExtraNode when only the new side has it, one MissingNode   *)
(* when only the old side has it, a recursive comparison and no Missing or *)
(* Extra record when both have it; objects with different keys are never   *)
(* paired, so two lists without a common key give no Mismatch.             *)
(***************************************************************************)
PairingOf(r) ==
    LET only_old == KeysOf(sib_old) \ KeysOf(sib_new)
        only_new == KeysOf(sib_new) \ KeysOf(sib_old)
        segments == {ObjectSegment(k) : k \in KeysOf(sib_old) \union KeysOf(sib_new)}
    IN  /\ \A at \in segments :
              /\ Count(r.diffs, TYPE_MISSING, at)
                    = Cardinality({k \in only_old : ObjectSegment(k) = at})
              /\ Count(r.diffs, TYPE_EXTRA, at)
                    = Cardinality({k \in only_new : ObjectSegment(k) = at})
        /\ Len(r.diffs) >= Cardinality(only_old) + Cardinality(only_new)
        /\ KeysOf(sib_old) \cap KeysOf(sib_new) = {} =>
              /\ Mismatches(r) = {}
              /\ Len(r.diffs) = Cardinality(only_old) + Cardinality(only_new)

\* C7: the call returns, and its records are those of the key-based pairing.
KeyBasedPairing == ObjectsCompared => result.ok /\ PairingOf(result)

\* The pairing of C7 on the sibling lists every key of which can be derived.
KeyBasedPairingOfDerivedKeys == (ObjectsCompared /\ result.ok) => PairingOf(result)

\* A mapping model X only in old and a mapping model Y only in new have been
\* compared: one MissingNode and one ExtraNode.
ModelXMissingModelYExtra ==
    /\ ObjectsCompared
    /\ sib_old = <<Model("X")>>
    /\ sib_new = <<Model("Y")>>
    /\ Len(result.diffs) = 2
    /\ Count(result.diffs, TYPE_MISSING, ObjectSegment(<<"XDDEVMAPPINGMODEL", "X">>)) = 1
    /\ Count(result.diffs, TYPE_EXTRA, ObjectSegment(<<"XDDEVMAPPINGMODEL", "Y">>)) = 1

(***************************************************************************)
(* C5. Rename collapsing: when exactly one entry of the old key list has a *)
(* value the new list lacks and exactly one entry of the new key list has  *)
(* a value the old list lacks, the key group gives exactly one record: a   *)
(* Mismatch of subtype text at the index of the removed entry in the old   *)
(* list, with old the removed value and new the added value.               *)
(***************************************************************************)
KeysCompared == pc = "handle_plist_keys"

\* The positions of the entries of `mine` whose trimmed text `theirs` lacks.
Lost(mine, theirs) ==
    {i \in 1..Len(mine) :
        \A j \in 1..Len(theirs) : TextOrEmpty(theirs[j]) # TextOrEmpty(mine[i])}

TAG_MARKER == "###"
HEADER_MARKER == "####"

UpperLetters == "ABCDEFGHIJKLMNOPQRSTUVWXYZ"
LowerLetters == "abcdefghijklmnopqrstuvwxyz"

\* str.lower()
RECURSIVE Lower(_)
Lower(s) ==
    IF Len(s) = 0 THEN ""
    ELSE LET c == SubSeq(s, 1, 1)
             at == {i \in 1..26 : SubSeq(UpperLetters, i, i) = c}
         IN (IF at = {} THEN c ELSE LET i == CHOOSE i \in at : TRUE
                                    IN SubSeq(LowerLetters, i, i))
            \o Lower(SubSeq(s, 2, Len(s)))

\* str.startswith, str.endswith
StartsWith(s, prefix) == Len(s) >= Len(prefix) /\ SubSeq(s, 1, Len(prefix)) = prefix
EndsWith(s, suffix) ==
    Len(s) >= Len(suffix) /\ SubSeq(s, Len(s) - Len(suffix) + 1, Len(s)) = suffix

\* str.rstrip("\n")
RECURSIVE RStripNewlines(_)
RStripNewlines(s) ==
    IF EndsWith(s, "\n") THEN RStripNewlines(SubSeq(s, 1, Len(s) - 1)) ELSE s

\* The index of the first "\n" of s at or after i, Len(s) + 1 when none.
RECURSIVE LineEnd(_, _)
LineEnd(s, i) ==
    IF i > Len(s) \/ SubSeq(s, i, i) = "\n" THEN i ELSE LineEnd(s, i + 1)

\* The start of the first line of s, at or after the line start i, that
\* matches ^### .*$ (re.MULTILINE); 0 when none.
RECURSIVE HeaderStart(_, _)
HeaderStart(s, i) ==
    IF i > Len(s) THEN 0
    ELSE IF i + Len(TAG_MARKER) <= Len(s)
            /\ SubSeq(s, i, i + Len(TAG_MARKER)) = TAG_MARKER \o " "
         THEN i
         ELSE HeaderStart(s, LineEnd(s, i) + 1)

\* re.split(r'(^### .*$)', existing_content, flags=re.MULTILINE): the text
\* before the first header, then each header line followed by the text up
\* to the next header.
RECURSIVE ReSplit(_)
ReSplit(s) ==
    LET start == HeaderStart(s, 1)
    IN IF start = 0 THEN <<s>>
       ELSE LET end == LineEnd(s, start)
            IN <<SubSeq(s, 1, start - 1), SubSeq(s, start, end - 1)>>
               \o ReSplit(SubSeq(s, end, Len(s)))

\* str.split(sep)
RECURSIVE SplitOn(_, _)
SplitOn(s, sep) ==
    LET at == {i \in 1..Len(s) : SubSeq(s, i, i) = sep}
    IN IF at = {} THEN <<s>>
       ELSE LET i == CHOOSE i \in at : \A j \in at : i <= j
            IN <<SubSeq(s, 1, i - 1)>> \o SplitOn(SubSeq(s, i + 1, Len(s)), sep)

IsDigits(s) ==
    Len(s) > 0 /\ \A i \in 1..Len(s) : \E d \in 0..9 : SubSeq(s, i, i) = ToString(d)

\* re.match(r'^[0-9]+\.[0-9]+(\.[0-9]+)?$', current_tag)
IsVersionNumber(s) ==
    LET parts == SplitOn(s, ".")
    IN Len(parts) \in {2, 3} /\ \A k \in 1..Len(parts) : IsDigits(parts[k])

\* The special tags, in the order they keep at the top of the file.
SPECIAL_TAGS == <<"alpha", "beta", "nightly">>

\* A call of update_release_md returns the new content or raises ValueError.
Returned(content) == [ok |-> TRUE, content |-> content]
ValueError == [ok |-> FALSE, content |-> ""]

\* list.index(x), 0-based; -1 stands for the ValueError of a missing x.
ListIndex(list, x) ==
    LET at == {k \in 1..Len(list) : list[k] = x}
    IN IF at = {} THEN -1 ELSE (CHOOSE k \in at : \A j \in at : k <= j) - 1

\* list.insert(pos, x) with a 0-based pos >= 0
ListInsert(list, pos, x) ==
    LET at == IF pos > Len(list) THEN Len(list) ELSE pos
    IN SubSeq(list, 1, at) \o <<x>> \o SubSeq(list, at + 1, Len(list))

\* The while loop of update_release_md over the split sections, from the
\* 0-based index i on.  st holds the loop's variables.
RECURSIVE ScanSections(_, _, _, _)
ScanSections(sections, i, tag_lower, st) ==
    IF i >= Len(sections) THEN st
    ELSE IF i % 2 = 1
    THEN LET header == sections[i + 1]
             current_tag == Lower(Strip(SubSeq(header, 4, Len(header))))
             at == Len(st.processed_sections)
             tracked ==
                 IF current_tag \in DOMAIN st.special_tags_map
                 THEN [st EXCEPT !.special_tags_map[current_tag] = TRUE,
                                 !.last_special_index = at]
                 ELSE IF IsVersionNumber(current_tag) /\ st.numbered_tag_index = -1
                 THEN [st EXCEPT !.numbered_tag_index = at]
                 ELSE st
         IN IF current_tag = tag_lower
            THEN ScanSections(sections, i + 2, tag_lower,
                              [tracked EXCEPT !.tag_found = TRUE])
            ELSE ScanSections(sections, i + 1, tag_lower,
                              [tracked EXCEPT !.processed_sections = Append(@, header)])
    ELSE ScanSections(sections, i + 1, tag_lower,
                      [st EXCEPT !.processed_sections = Append(@, sections[i + 1])])

\* The insertion point of a special tag: behind the last of the special tags
\* before it that the loop recorded as present, each located with
\* processed_sections.index(f"### {t}"); [ok |-> FALSE] when index raises.
SpecialInsertPos(processed_sections, special_tags_map, tag_lower) ==
    LET mine == CHOOSE k \in 1..3 : SPECIAL_TAGS[k] = tag_lower
        before == {k \in 1..(mine - 1) : special_tags_map[SPECIAL_TAGS[k]]}
        IndexOf(k) == ListIndex(processed_sections, TAG_MARKER \o " " \o SPECIAL_TAGS[k])
    IN IF \E k \in before : IndexOf(k) = -1 THEN [ok |-> FALSE, pos |-> 0]
       ELSE IF before = {} THEN [ok |-> TRUE, pos |-> 0]
       ELSE LET last == CHOOSE k \in before : \A j \in before : j <= k
            IN [ok |-> TRUE, pos |-> IndexOf(last) + 2]

\* InsertSection as the source should not be: the new section always goes to
\* the front of the file.
InsertSectionAtFront(processed_sections, insert_pos, section) ==
    <<section>> \o processed_sections

\* processed_sections.insert(insert_pos, new_section), then a blank line in
\* front of it unless the piece before it ends with one.
InsertSection(processed_sections, insert_pos, section) ==
    LET inserted == ListInsert(processed_sections, insert_pos, section)
    IN IF insert_pos > 0 /\ ~EndsWith(inserted[insert_pos], "\n\n")
       THEN ListInsert(inserted, insert_pos, "\n\n")
       ELSE inserted

\* The joining loop: a blank line in front of every header but the first piece.
RECURSIVE Combine(_, _, _)
Combine(processed_sections, i, joined) ==
    IF i >= Len(processed_sections) THEN joined
    ELSE LET section == processed_sections[i + 1]
             spaced == IF i > 0 /\ StartsWith(section, TAG_MARKER \o " ")
                          /\ ~EndsWith(joined, "\n\n")
                       THEN RStripNewlines(joined) \o "\n\n"
                       ELSE joined
         IN Combine(processed_sections, i + 1, spaced \o section)

update_release_md(existing_content, section, tag) ==
    LET tag_lower == Lower(tag)
        is_special_tag == tag_lower \in Range(SPECIAL_TAGS)
        sections == ReSplit(existing_content)
        st == ScanSections(sections, 0, tag_lower,
                  [processed_sections |-> <<>>,
                   special_tags_map |-> [t \in Range(SPECIAL_TAGS) |-> FALSE],
                   last_special_index |-> -1,
                   tag_found |-> FALSE,
                   numbered_tag_index |-> -1])
        special == SpecialInsertPos(st.processed_sections, st.special_tags_map, tag_lower)
        numbered == IF st.last_special_index >= 0 THEN st.last_special_index + 2 ELSE 0
        Finish(insert_pos) ==
            Returned(RStrip(Combine(InsertSection(st.processed_sections, insert_pos, section),
                                    0, "")) \o "\n")
    IN IF existing_content = "" THEN Returned(section)
       ELSE IF st.tag_found
       THEN IF is_special_tag
            THEN IF special.ok THEN Finish(special.pos) ELSE ValueError
            ELSE Finish(numbered)
       ELSE IF is_special_tag
            THEN IF special.ok THEN Finish(special.pos) ELSE ValueError
            ELSE Finish(numbered)

\* generate_release_notes: the tag header, then the What's Changed list with
\* one line per commit message, "- Nothing..." when there is none.
generate_release_notes(tag, messages) ==
    TAG_MARKER \o " " \o tag \o "\n" \o HEADER_MARKER \o " What's Changed\n"
    \o (IF messages = "" THEN "- Nothing...\n" ELSE "- " \o messages \o "\n")

(***************************************************************************)
(* The release notes over the runs of main(): each run reads the file,     *)
(* generates the section of its tag and writes what update_release_md      *)
(* returns.  A run that raises leaves the file as it was.                  *)
(***************************************************************************)
\* The tags of the runs: the special tags and two version numbers.
ReleaseTags == {"alpha", "beta", "nightly", "1.0", "1.1"}

\* The commit messages of a run: none, or one.
Messages == {"", "m"}

NoDiff ==
    /\ root_old = NoElem
    /\ root_new = NoElem
    /\ sib_old = <<>>
    /\ sib_new = <<>>
    /\ root_path = ""
    /\ seed = "fwd"

InitReleaseNotes ==
    /\ NoDiff
    /\ release_md = ""
    /\ release_tag = ""
    /\ release_section = ""
    /\ result = Returned("")
    /\ pc = "start"
    /\ normalized = NothingNormalized

UpdateReleaseMd(tag, messages) ==
    LET section == generate_release_notes(tag, messages)
        updated_content == update_release_md(release_md, section, tag)
    IN /\ release_tag' = tag
       /\ release_section' = section
       /\ result' = updated_content
       /\ release_md' = IF updated_content.ok THEN updated_content.content ELSE release_md
       /\ pc' = "update_release_md"
       /\ UNCHANGED <<root_old, root_new, sib_old, sib_new, root_path, seed, normalized>>

NextReleaseNotes == \E tag \in ReleaseTags, messages \in Messages : UpdateReleaseMd(tag, messages)

SpecReleaseNotes == InitReleaseNotes /\ [][NextReleaseNotes]_vars

(***************************************************************************)
(* The release notes file as it may be found: written by earlier runs with *)
(* tags in any letter case, or edited by hand.                             *)
(***************************************************************************)
\* Tags as the runs may spell them.
AnyCaseTags == {"alpha", "Alpha", "beta", "1.0"}

\* Files found before the first run: none, one written by a run, one with
\* the section of a tag twice, one with a capitalized header.
ExistingFiles ==
    {"",
     generate_release_notes("1.0", ""),
     generate_release_notes("alpha", "") \o "\n" \o generate_release_notes("1.0", "")
         \o "\n" \o generate_release_notes("alpha", "m"),
     generate_release_notes("beta", "") \o "\n" \o generate_release_notes("1.0", "")
         \o "\n" \o generate_release_notes("1.0", "m"),
     generate_release_notes("Alpha", "") \o "\n" \o generate_release_notes("1.0", "")}

InitReleaseFile ==
    /\ NoDiff
    /\ release_md \in ExistingFiles
    /\ release_tag = ""
    /\ release_section = ""
    /\ result = Returned("")
    /\ pc = "start"
    /\ normalized = NothingNormalized

NextReleaseFile == \E tag \in AnyCaseTags, messages \in Messages : UpdateReleaseMd(tag, messages)

SpecReleaseFile == InitReleaseFile /\ [][NextReleaseFile]_vars

(***************************************************************************)
(* Vocabulary of the release notes properties.                             *)
(***************************************************************************)
Updated == pc = "update_release_md"

\* The sections of a file in order: the tag its header names, lower-cased,
\* and its text, header included, without the blank lines behind it.
SectionsOf(content) ==
    LET pieces == ReSplit(content)
    IN [k \in 1..((Len(pieces) - 1) \div 2) |->
           [tag |-> Lower(Strip(SubSeq(pieces[2 * k], 4, Len(pieces[2 * k])))),
            text |-> RStrip(pieces[2 * k] \o pieces[2 * k + 1])]]

IsSpecial(t) == t \in Range(SPECIAL_TAGS)

Rank(t) == CHOOSE k \in 1..3 : SPECIAL_TAGS[k] = t

\* C11: in the file the runs of main() build from nothing with the tags
\* alpha, beta, nightly and version numbers, every special section stands
\* before every numbered section, the special sections stand in the order
\* alpha, beta, nightly, and the numbered section a run has just written
\* stands before every other numbered section.
ReleaseNotesOrdering ==
    LET secs == SectionsOf(release_md)
    IN /\ result.ok
       /\ \A i, j \in 1..Len(secs) :
            IsSpecial(secs[i].tag) /\ ~IsSpecial(secs[j].tag) => i < j
       /\ \A i, j \in 1..Len(secs) :
            /\ IsSpecial(secs[i].tag) /\ IsSpecial(secs[j].tag)
            /\ Rank(secs[i].tag) < Rank(secs[j].tag)
            => i < j
       /\ Updated /\ ~IsSpecial(release_tag) =>
            \A i, j \in 1..Len(secs) :
                /\ secs[i].tag = release_tag
                /\ ~IsSpecial(secs[j].tag) /\ secs[j].tag # release_tag
                => i < j

\* A run adds 1.1 to a file that holds the three special tags and 1.0.
NumberedAddedBelowSpecials ==
    /\ Updated
    /\ release_tag = "1.1"
    /\ [k \in 1..Len(SectionsOf(release_md)) |-> SectionsOf(release_md)[k].tag]
           = <<"alpha", "beta", "nightly", "1.1", "1.0">>

\* C12: after update_release_md(existing_content, new_section, tag) the
\* result holds exactly one section whose header names tag, letter case
\* aside, and that section is new_section.
TagUniqueness ==
    Updated =>
        /\ result.ok
        /\ LET secs == SectionsOf(result.content)
               mine == {k \in 1..Len(secs) : secs[k].tag = Lower(release_tag)}
           IN /\ Cardinality(mine) = 1
              /\ \A k \in mine : secs[k].text = RStrip(release_section)

\* The same of the calls that return.
TagUniquenessWhenReturned ==
    Updated /\ result.ok =>
        LET secs == SectionsOf(result.content)
            mine == {k \in 1..Len(secs) : secs[k].tag = Lower(release_tag)}
        IN /\ Cardinality(mine) = 1
           /\ \A k \in mine : secs[k].text = RStrip(release_section)

(***************************************************************************)
(* The comparator on one pair of elements.                                 *)
(***************************************************************************)
\* The trimmed text of a present element, "" when it has none.
Trimmed(elem) == IF elem.text = None THEN "" ELSE Strip(elem.text)

\* The one record diff_elements owes for an element present on one side only.
IsOneSidedRecord(r, elem, diff_type, category) ==
    /\ r.ok
    /\ Len(r.diffs) = 1
    /\ r.diffs[1][1] = diff_type
    /\ r.diffs[1][2].category = category
    /\ r.diffs[1][2].path = root_path
    /\ "value" \in DOMAIN r.diffs[1][2] <=> (elem.children = <<>> /\ Trimmed(elem) # "")
    /\ "value" \in DOMAIN r.diffs[1][2] => r.diffs[1][2].value = Trimmed(elem)

\* C13: with exactly one of the two elements absent diff_elements returns
\* exactly one record, an ExtraNode when only the new element is present and
\* a MissingNode when only the old one is, with a value exactly when the
\* present element has no children and a non-blank text; with both absent it
\* returns no record.
OneSidedComparison ==
    Compared =>
        /\ root_old = NoElem /\ root_new = NoElem => result = Ok(<<>>)
        /\ root_old = NoElem /\ root_new # NoElem =>
               IsOneSidedRecord(result, root_new, TYPE_EXTRA, CATEGORY_EXTRA)
        /\ root_old # NoElem /\ root_new = NoElem =>
               IsOneSidedRecord(result, root_old, TYPE_MISSING, CATEGORY_MISSING)

\* An element with text and a child is compared with nothing.
TextParentAlone ==
    /\ Compared
    /\ root_old = NoElem
    /\ root_new # NoElem
    /\ root_new.children # <<>>
    /\ Trimmed(root_new) # ""

\* The text Mismatch records of a call on the pair of roots itself.
TextMismatches(r) ==
    {i \in 1..Len(r.diffs) :
        /\ r.diffs[i][1] = TYPE_MISMATCH
        /\ r.diffs[i][2].type = "text"
        /\ r.diffs[i][2].path = root_path \o " text"}

IsMappingNumber(elem) == elem.tag = "attribute" /\ Get(elem, "name") = "mappingnumber"

SameTagCompared ==
    Compared /\ BothPresent /\ root_old.tag = root_new.tag /\ result.ok

\* C14: for two present elements of equal tags diff_elements emits one text
\* Mismatch if their trimmed texts differ and none if they are equal, except
\* that two 'attribute' elements both named mappingnumber never give one.
TextComparison ==
    SameTagCompared =>
        Cardinality(TextMismatches(result)) =
            IF IsMappingNumber(root_old) /\ IsMappingNumber(root_new) THEN 0
            ELSE IF Trimmed(root_old) # Trimmed(root_new) THEN 1
            ELSE 0

\* The same with the exception read off the old element alone.
TextComparisonByOldName ==
    SameTagCompared =>
        Cardinality(TextMismatches(result)) =
            IF IsMappingNumber(root_old) THEN 0
            ELSE IF Trimmed(root_old) # Trimmed(root_new) THEN 1
            ELSE 0

(***************************************************************************)
(* The dispatcher: diff_elements on two elements that differ in their      *)
(* children only, some of them ignored leaf markers.                       *)
(***************************************************************************)
SiblingChildren ==
    {Attr("name", "1"), Attr("name", "2"),
     Attr("mappingnumber", "1"), Attr("mappingnumber", "2"),
     Attr("sourcemodeldata", "9"),
     Elem("a", NoAttrib, "x", <<>>)}

\* An element without text or attributes that holds the children.
ParentOf(children) == Elem("r", NoAttrib, None, children)

InitChildren ==
    /\ root_old \in {ParentOf(kids) : kids \in SeqsUpTo(SiblingChildren, MaxKids)}
    /\ root_new \in {ParentOf(kids) : kids \in SeqsUpTo(SiblingChildren, MaxKids)}
    /\ sib_old = <<>>
    /\ sib_new = <<>>
    /\ root_path = "r"
    /\ seed \in Orders
    /\ result = Ok(<<>>)
    /\ pc = "start"
    /\ normalized = NothingNormalized
    /\ NoReleaseNotes

NextChildren == DiffElements

SpecChildren == InitChildren /\ [][NextChildren]_vars

ChildrenCompared == pc = "diff_elements"

\* An ignored leaf marker: an 'attribute' child that carries model data or
\* the mapping number.
IsMarker(child) ==
    /\ child.tag = "attribute"
    /\ "name" \in DOMAIN child.attrib
    /\ child.attrib["name"] \in {"sourcemodeldata", "destinationmodeldata", "mappingnumber"}

WithoutMarkers(children) ==
    LET Meaningful(child) == ~IsMarker(child)
    IN  SelectSeq(children, Meaningful)

\* C15: the ignored leaf markers among the children change nothing: the
\* call gives the records, paths and indexes included, of the call on the
\* two lists without their markers.
IgnoredLeafMarkers ==
    ChildrenCompared =>
        /\ result.ok
        /\ result = diff_children(WithoutMarkers(root_old.children), WithoutMarkers(root_new.children),
                                  root_path, seed)

\* A marker stands before an 'attribute' child whose text changed.
MarkerBeforeChangedAttribute ==
    /\ ChildrenCompared
    /\ root_old.children = <<Attr("mappingnumber", "1"), Attr("name", "1")>>
    /\ root_new.children = <<Attr("name", "2")>>
    /\ Len(result.diffs) = 1
    /\ result.diffs[1][2].path = "r.attribute text"

(***************************************************************************)
(* The set-of-strings strategy: what it reports of two key lists.          *)
(***************************************************************************)
\* How many entries of a key list carry the trimmed text of `child`.
Occurrences(children, child) ==
    Cardinality({i \in 1..Len(children) : Trimmed(children[i]) = Trimmed(child)})

\* The two key lists hold the same trimmed texts with the same multiplicities.
SameMultiset(mine, theirs) ==
    /\ \A i \in 1..Len(mine) : Occurrences(mine, mine[i]) = Occurrences(theirs, mine[i])
    /\ \A j \in 1..Len(theirs) : Occurrences(mine, theirs[j]) = Occurrences(theirs, theirs[j])

\* C16: the set-of-strings strategy emits no record if and only if the old
\* and the new keys are equal as multisets of trimmed texts.
SetOfStringsEquality ==
    KeysCompared => (result.diffs = <<>> <=> SameMultiset(sib_old, sib_new))

\* The same of key lists equal as sets of trimmed texts.
SetOfStringsEqualityAsSets ==
    KeysCompared =>
        (result.diffs = <<>> <=> Lost(sib_old, sib_new) \union Lost(sib_new, sib_old) = {})

\* The records of one type among the records of a call.
RecordsOfType(r, diff_type) == {k \in 1..Len(r.diffs) : r.diffs[k][1] = diff_type}

\* Every entry of `mine` that `theirs` lacks has its own record of the type,
\* at the entry's position in `mine`, and there is no other record of it.
ReportedAtOwnIndex(r, mine, theirs, diff_type, side) ==
    /\ Cardinality(RecordsOfType(r, diff_type)) = Cardinality(Lost(mine, theirs))
    /\ \A i \in Lost(mine, theirs) :
        \E k \in RecordsOfType(r, diff_type) :
            /\ r.diffs[k][2].path = root_path \o ".key[" \o ToString(i - 1) \o "] text"
            /\ r.diffs[k][2][side] = Trimmed(mine[i])

NotARename ==
    /\ KeysCompared
    /\ Lost(sib_old, sib_new) \union Lost(sib_new, sib_old) # {}
    /\ ~(Cardinality(Lost(sib_old, sib_new)) = 1 /\ Cardinality(Lost(sib_new, sib_old)) = 1)

\* C17: when keys were removed or added and it is not one removed and one
\* added, handle_plist_keys emits a MissingNode for every removed key at its
\* index in the old list, an ExtraNode for every added key at its index in
\* the new list, and no Mismatch.
AddRemoveReporting ==
    NotARename =>
        /\ RecordsOfType(result, TYPE_MISMATCH) = {}
        /\ ReportedAtOwnIndex(result, sib_old, sib_new, TYPE_MISSING, "old")
        /\ ReportedAtOwnIndex(result, sib_new, sib_old, TYPE_EXTRA, "new")

NoKeyTwice(children) ==
    \A i, j \in 1..Len(children) : Trimmed(children[i]) = Trimmed(children[j]) => i = j

\* The same of key lists that hold no text twice.
AddRemoveReportingOfDistinctKeys ==
    NotARename /\ NoKeyTwice(sib_old) /\ NoKeyTwice(sib_new) =>
        /\ RecordsOfType(result, TYPE_MISMATCH) = {}
        /\ ReportedAtOwnIndex(result, sib_old, sib_new, TYPE_MISSING, "old")
        /\ ReportedAtOwnIndex(result, sib_new, sib_old, TYPE_EXTRA, "new")

(***************************************************************************)
(* The positional strategy: diff_elements on two elements with children of *)
(* several tags, none of them 'object', outside a plist dict.              *)
(***************************************************************************)
PositionalChildren ==
    {Elem("a", NoAttrib, "x", <<>>), Elem("a", NoAttrib, "y", <<>>),
     Key("K"), Key("M"), Attr("name", "1")}

InitPositional ==
    /\ root_old \in {ParentOf(kids) : kids \in SeqsUpTo(PositionalChildren, MaxKids)}
    /\ root_new \in {ParentOf(kids) : kids \in SeqsUpTo(PositionalChildren, MaxKids)}
    /\ sib_old = <<>>
    /\ sib_new = <<>>
    /\ root_path = "r"
    /\ seed \in Orders
    /\ result = Ok(<<>>)
    /\ pc = "start"
    /\ normalized = NothingNormalized
    /\ NoReleaseNotes

NextPositional == DiffElements

SpecPositional == InitPositional /\ [][NextPositional]_vars

\* The children of one tag, in their order.
OfTag(children, tag) ==
    LET HasTag(child) == child.tag = tag
    IN  SelectSeq(children, HasTag)

\* The i-th child of a group, absent past its end.
Nth(group, i) == IF i <= Len(group) THEN group[i] ELSE NoElem

\* The path of position i of a group of max_len positions.
PositionPath(tag, i, max_len) ==
    IF max_len = 1 THEN root_path \o "." \o tag
    ELSE root_path \o "." \o tag \o "[" \o ToString(i - 1) \o "]"

\* The records of comparing the two groups of one tag position by position.
PositionalRecords(tag) ==
    LET old_group == OfTag(root_old.children, tag)
        new_group == OfTag(root_new.children, tag)
        max_len == Max(Len(old_group), Len(new_group))
    IN  ExtendAll([i \in 1..max_len |->
            diff_elements(Nth(old_group, i), Nth(new_group, i),
                          PositionPath(tag, i, max_len), seed)])

\* The positions of `mine` past the end of the group of the same tag in `theirs`.
Surplus(mine, theirs) ==
    {i \in 1..Len(mine) :
        Len(OfTag(SubSeq(mine, 1, i), mine[i].tag)) > Len(OfTag(theirs, mine[i].tag))}

\* C18: the children of every tag other than 'object' are compared position
\* by position within their tag, a position past the end of the shorter
\* group against nothing, under the path of the tag alone when there is one
\* position and of tag[i] otherwise; every surplus child gives one
\* MissingNode or ExtraNode.
PositionalStrategy ==
    ChildrenCompared =>
        LET tags == SetToSeq({root_old.children[i].tag : i \in 1..Len(root_old.children)}
                             \union {root_new.children[i].tag : i \in 1..Len(root_new.children)})
            expected == ExtendAll([k \in 1..Len(tags) |-> PositionalRecords(tags[k])])
        IN  /\ result.ok
            /\ Outcome(result) = Outcome(expected)
            /\ Len(result.diffs) = Len(expected.diffs)
            /\ Cardinality(RecordsOfType(result, TYPE_MISSING))
                   = Cardinality(Surplus(root_old.children, root_new.children))
            /\ Cardinality(RecordsOfType(result, TYPE_EXTRA))
                   = Cardinality(Surplus(root_new.children, root_old.children))

\* Two old 'a' children against one new one: a text Mismatch at a[0], a
\* MissingNode at a[1].
SurplusChildReported ==
    /\ ChildrenCompared
    /\ root_old.children = <<Elem("a", NoAttrib, "x", <<>>), Elem("a", NoAttrib, "y", <<>>)>>
    /\ root_new.children = <<Elem("a", NoAttrib, "y", <<>>)>>
    /\ {result.diffs[k][2].path : k \in 1..Len(result.diffs)} = {"r.a[0] text", "r.a[1]"}
    /\ Cardinality(RecordsOfType(result, TYPE_MISSING)) = 1

(***************************************************************************)
(* The key resolver on its own: get_object_key on one 'object' element.    *)
(***************************************************************************)
\* The type attribute of an object, or none.
ObjectTypes ==
    {"XDDEVENTITYMAPPING", "XDDEVATTRIBUTEMAPPING", "XDDEVRELATIONSHIPMAPPING",
     "XDDEVMAPPINGMODEL", "XDDEVOTHER"}

\* The volatile attributes of an object, or none.
VolatileAttribs == {NoAttrib, "id" :> "z1", ("id" :> "z2") @@ ("idrefs" :> "z3 z4")}

ObjectAttribs ==
    VolatileAttribs
    \union {("type" :> t) @@ volatile : t \in ObjectTypes, volatile \in VolatileAttribs}

\* The sub-fields an object may hold, each present or not, in this order;
\* sourcename also present without text.
SubFieldChoices ==
    <<{<<>>, <<Attr("mappingnumber", "7")>>},
      {<<>>, <<Attr("sourcename", "S")>>, <<Attr("sourcename", None)>>},
      {<<>>, <<Attr("destinationname", " D ")>>},
      {<<>>, <<Attr("mappingtypename", "U")>>},
      {<<>>, <<Attr("name", "n ")>>},
      {<<>>, <<Attr("sourcemodelpath", "X")>>}>>

RECURSIVE SubFieldLists(_)
SubFieldLists(k) ==
    IF k = 0 THEN {<<>>}
    ELSE {front \o last : front \in SubFieldLists(k - 1), last \in SubFieldChoices[k]}

ObjectsToKey ==
    {Elem("object", attrib, None, kids) :
        attrib \in ObjectAttribs, kids \in SubFieldLists(Len(SubFieldChoices))}

InitKeyResolver ==
    /\ root_old \in ObjectsToKey
    /\ root_new = NoElem
    /\ sib_old = <<>>
    /\ sib_new = <<>>
    /\ root_path = ""
    /\ seed = "fwd"
    /\ result = [ok |-> TRUE, key |-> <<>>]
    /\ pc = "start"
    /\ normalized = NothingNormalized
    /\ NoReleaseNotes

GetObjectKey ==
    /\ pc = "start"
    /\ result' = get_object_key(root_old)
    /\ pc' = "get_object_key"
    /\ UNCHANGED <<root_old, root_new, sib_old, sib_new, root_path, seed>>
    /\ UNCHANGED <<release_md, release_tag, release_section, normalized>>

NextKeyResolver == GetObjectKey

SpecKeyResolver == InitKeyResolver /\ [][NextKeyResolver]_vars

KeyDerived == pc = "get_object_key"

\* The trimmed text of the sub-field of an object: of its first 'attribute'
\* child of that name, the empty string when there is none.
SubField(elem, name) ==
    LET at == {i \in 1..Len(elem.children) :
                  /\ elem.children[i].tag = "attribute"
                  /\ "name" \in DOMAIN elem.children[i].attrib
                  /\ elem.children[i].attrib["name"] = name}
    IN  IF at = {} THEN ""
        ELSE Trimmed(elem.children[CHOOSE i \in at : \A j \in at : i <= j])

TypeOf(elem) == IF "type" \in DOMAIN elem.attrib THEN elem.attrib["type"] ELSE None

\* The key an object owes to its tag, its type and its sub-field texts.
KeyOwed(elem) ==
    CASE TypeOf(elem) = "XDDEVENTITYMAPPING" ->
            <<"XDDEVENTITYMAPPING", SubField(elem, "sourcename"),
              SubField(elem, "destinationname"), SubField(elem, "mappingtypename")>>
      [] TypeOf(elem) \in {"XDDEVATTRIBUTEMAPPING", "XDDEVRELATIONSHIPMAPPING"} ->
            <<TypeOf(elem), SubField(elem, "name")>>
      [] TypeOf(elem) = "XDDEVMAPPINGMODEL" ->
            <<"XDDEVMAPPINGMODEL", SubField(elem, "sourcemodelpath")>>
      [] OTHER -> <<elem.tag>>

\* C19: get_object_key returns the tuple of the object's type and the
\* trimmed texts of the sub-fields its type names, the empty string for an
\* absent one, and (tag,) for any other or absent type: a key that depends
\* on nothing else of the object.
KeyDerivation ==
    KeyDerived => result.ok /\ result.key = KeyOwed(root_old)

\* The same of the calls that return.
KeyDerivationWhenReturned ==
    KeyDerived /\ result.ok => result.key = KeyOwed(root_old)

(***************************************************************************)
(* The reporter's path normalization: print_missing_nodes and              *)
(* print_extra_nodes hand the path of each of their records to             *)
(* normalize_path.                                                         *)
(***************************************************************************)
\* The start of the first occurrence of sub in s, 0 when there is none.
FindIn(s, sub) ==
    LET at == {i \in 1..(Len(s) - Len(sub) + 1) : SubSeq(s, i, i + Len(sub) - 1) = sub}
    IN  IF at = {} THEN 0 ELSE CHOOSE i \in at : \A j \in at : i <= j

\* str.replace(old, new)
RECURSIVE Replace(_, _, _)
Replace(s, old, new) ==
    LET i == FindIn(s, old)
    IN  IF i = 0 THEN s
        ELSE SubSeq(s, 1, i - 1) \o new
             \o Replace(SubSeq(s, i + Len(old), Len(s)), old, new)

normalize_path(path) ==
    IF Contains(path, "object[")
    THEN LET replaced == Replace(path, "object[", "object.{")
         IN  IF EndsWith(replaced, "]")
             THEN SubSeq(replaced, 1, Len(replaced) - 1) \o "}"
             ELSE replaced
    ELSE path

\* A mapping model with so many 'a' children.
ModelWith(sourcemodelpath, kids) ==
    Elem("object", "type" :> "XDDEVMAPPINGMODEL", None,
         <<Attr("sourcemodelpath", sourcemodelpath)>>
         \o [i \in 1..kids |-> Elem("a", NoAttrib, "x", <<>>)])

\* The children of the documents whose records are reported.
ReportedChildren ==
    {ModelWith("X", 0), ModelWith("X", 1), ModelWith("X", 2), ModelWith("Y", 0),
     Elem("a", NoAttrib, "x", <<>>)}

ReportedDocuments ==
    {Elem("r", NoAttrib, None, kids) : kids \in SeqsUpTo(ReportedChildren, MaxKids)}

InitReport ==
    /\ root_old \in ReportedDocuments
    /\ root_new \in ReportedDocuments
    /\ root_path = "r"
    /\ seed \in Orders
    /\ sib_old = <<>>
    /\ sib_new = <<>>
    /\ result = Ok(<<>>)
    /\ pc = "start"
    /\ normalized = NothingNormalized
    /\ NoReleaseNotes

\* One Path line of print_missing_nodes or print_extra_nodes.
NormalizePath ==
    /\ pc \in {"diff_elements", "normalize_path"}
    /\ \E k \in 1..Len(result.diffs) :
        /\ result.diffs[k][1] \in {TYPE_MISSING, TYPE_EXTRA}
        /\ normalized' = [path |-> result.diffs[k][2].path,
                          display |-> normalize_path(result.diffs[k][2].path)]
    /\ pc' = "normalize_path"
    /\ UNCHANGED <<root_old, root_new, sib_old, sib_new, root_path, seed, result>>
    /\ UNCHANGED <<release_md, release_tag, release_section>>

NextReport == DiffElements \/ NormalizePath

SpecReport == InitReport /\ [][NextReport]_vars

PathNormalized == pc = "normalize_path"

\* A path with every segment object[<description>] written
\* object.{<description>} and nothing else changed.
RECURSIVE WithBraces(_)
WithBraces(path) ==
    LET i == FindIn(path, "object[")
        rest == SubSeq(path, i + 7, Len(path))
        close == FindIn(rest, "]")
    IN  IF i = 0 \/ close = 0 THEN path
        ELSE SubSeq(path, 1, i - 1) \o "object.{" \o SubSeq(rest, 1, close - 1) \o "}"
             \o WithBraces(SubSeq(rest, close + 1, Len(rest)))

\* C20: normalize_path rewrites the key-based segment object[<description>]
\* of a path of the engine, at its end or followed by further segments, to
\* object.{<description>} and changes no other character; a path without
\* such a segment comes back unchanged.
PathNormalization ==
    PathNormalized => normalized.display = WithBraces(normalized.path)

\* The same of the paths whose one key-based segment is their last.
PathNormalizationOfLastSegment ==
    (PathNormalized /\ (FindIn(normalized.path, "]") \in {0, Len(normalized.path)}))
        => normalized.display = WithBraces(normalized.path)

\* A path with a key-based segment followed by a further segment has been
\* normalized.
SegmentFollowed ==
    /\ PathNormalized
    /\ Contains(normalized.path, "object[")
    /\ ~EndsWith(normalized.path, "]")

(***************************************************************************)
(* Vocabulary of the accounting of 'object' siblings.                      *)
(***************************************************************************)
\* The entries of a sibling list whose derived key is the given one.
WithKey(children, key) ==
    {i \in 1..Len(children) : get_object_key(children[i]).key = key}

\* The sibling is compared recursively against a child of the other side:
\* the records of its comparison with a child of the same key are among the
\* records of the result.
ComparedAgainst(r, old_elem, new_elem, key) ==
    LET compared == diff_elements(old_elem, new_elem, ObjectSegment(key), seed)
    IN  compared.ok /\ Range(compared.diffs) \subseteq Range(r.diffs)

\* Every sibling of the list `mine` is reported in a record of the given
\* type (one record for each sibling whose key the other side lacks) or
\* compared against a sibling of the list `theirs` with its key.
Accounted(r, mine, theirs, diff_type, mine_is_old) ==
    /\ \A at \in {ObjectSegment(k) : k \in KeysOf(mine) \ KeysOf(theirs)} :
          Count(r.diffs, diff_type, at)
              = Cardinality({i \in 1..Len(mine) :
                                /\ get_object_key(mine[i]).key \notin KeysOf(theirs)
                                /\ ObjectSegment(get_object_key(mine[i]).key) = at})
    /\ \A i \in 1..Len(mine) :
          LET key == get_object_key(mine[i]).key
          IN  key \in KeysOf(theirs) =>
                \E j \in WithKey(theirs, key) :
                    IF mine_is_old
                    THEN ComparedAgainst(r, mine[i], theirs[j], key)
                    ELSE ComparedAgainst(r, theirs[j], mine[i], key)

\* No two siblings of the list derive the same key.
NoKeyShared(children) ==
    \A i, j \in 1..Len(children) :
        get_object_key(children[i]).key = get_object_key(children[j]).key => i = j

(***************************************************************************)
(* C21. No object sibling is silently dropped: when handle_object_nodes    *)
(* returns, every 'object' child of the old list and every 'object' child  *)
(* of the new list is reported in a MissingNode / ExtraNode record or      *)
(* compared recursively against a child of the other side, also when       *)
(* several siblings derive the same key.                                   *)
(***************************************************************************)
NoSiblingDropped ==
    (ObjectsCompared /\ result.ok) =>
        /\ Accounted(result, sib_old, sib_new, TYPE_MISSING, TRUE)
        /\ Accounted(result, sib_new, sib_old, TYPE_EXTRA, FALSE)

\* The same of the sibling lists in which no two siblings of a side derive
\* the same key.
NoSiblingDroppedOfDistinctKeys ==
    (ObjectsCompared /\ result.ok /\ NoKeyShared(sib_old) /\ NoKeyShared(sib_new)) =>
        /\ Accounted(result, sib_old, sib_new, TYPE_MISSING, TRUE)
        /\ Accounted(result, sib_new, sib_old, TYPE_EXTRA, FALSE)

(***************************************************************************)
(* C22. Distinct keys give distinct paths: within one group of 'object'    *)
(* siblings, two different derived keys always produce two different path  *)
(* segments object[<description>], so the records of two differently keyed *)
(* objects never carry the same path.                                      *)
(***************************************************************************)
DistinctSegments(keys) ==
    \A k1, k2 \in keys : k1 # k2 => ObjectSegment(k1) # ObjectSegment(k2)

DistinctKeysDistinctPaths ==
    (ObjectsCompared /\ result.ok) =>
        DistinctSegments(KeysOf(sib_old) \union KeysOf(sib_new))

\* The same of the keys whose description holds every component after the
\* type: those of a mapping model and of an object of no recognized type.
DistinctKeysDistinctPathsOfWholeKeys ==
    (ObjectsCompared /\ result.ok) =>
        DistinctSegments({k \in KeysOf(sib_old) \union KeysOf(sib_new) :
                             k[1] # "XDDEVENTITYMAPPING"})

(***************************************************************************)
(* The release notes over runs of main() that spell a special tag in       *)
(* either letter case: every file is one the earlier runs wrote.           *)
(***************************************************************************)
\* Tags as the runs may spell them, the special ones capitalized or not.
MixedCaseTags == {"Alpha", "alpha", "beta", "nightly", "1.0"}

InitReleaseCalls ==
    /\ NoDiff
    /\ release_md = ""
    /\ release_tag = ""
    /\ release_section = ""
    /\ result = Returned("")
    /\ pc = "start"
    /\ normalized = NothingNormalized

NextReleaseCalls == \E tag \in MixedCaseTags, messages \in Messages : UpdateReleaseMd(tag, messages)

SpecReleaseCalls == InitReleaseCalls /\ [][NextReleaseCalls]_vars

(***************************************************************************)
(* C23. update_release_md never fails: on any content that earlier calls   *)
(* of update_release_md produced and any tag, special tags spelled in      *)
(* different letter case by different calls included, the call returns the *)
(* updated content and does not raise.                                     *)
(***************************************************************************)
UpdateNeverFails == Updated => result.ok

\* The same of the calls on a file none of whose headers spells a special
\* tag with a capital letter.
UpdateNeverFailsOfLowerCaseHeaders ==
    (Updated /\ \A t \in {"Alpha", "Beta", "Nightly"} :
                    ~Contains(release_md, TAG_MARKER \o " " \o t \o "\n"))
        => result.ok

====
